---------------------------- MODULE Spec2Model ----------------------------
(***************************************************************************)
(* A model of src/main.py: the Streamlit to-do list whose list is replaced *)
(* by parsed LLM replies and edited in place by the recursive renderer.    *)
(*                                                                         *)
(* Text is a sequence of one-character strings, so that strip, replace and *)
(* json.loads are computed on the characters and not assumed.  A JSON      *)
(* value is a record tagged by "kind"; a Python dict is the ordered        *)
(* sequence of its key/value pairs.  Indices and paths are 1-based here    *)
(* (Python's index i is i + 1 in the model).                               *)
(***************************************************************************)
EXTENDS Integers, Sequences, FiniteSets, TLC

VARIABLES
    todo_list,      \* st.session_state.todo_list (any JSON value)
    chat_response,  \* st.session_state.chat_response (JNull is None)
    widgets,        \* the per-task widgets the last script run put on the page
    run             \* what the last script run was given and what it did

vars == <<todo_list, chat_response, widgets, run>>

----------------------------------------------------------------------------
(* JSON values, as json.loads builds them and the renderer reads them.     *)

JList(items) == [kind |-> "list", items |-> items]
JDict(pairs) == [kind |-> "dict", pairs |-> pairs]
JStr(s) == [kind |-> "str", s |-> s]
JInt(n) == [kind |-> "int", n |-> n]
JBool(b) == [kind |-> "bool", b |-> b]
JNull == [kind |-> "null"]

\* Python truthiness of a value (if x:, bool(x)).
Truthy(v) ==
    CASE v.kind = "list" -> v.items # <<>>
      [] v.kind = "dict" -> v.pairs # <<>>
      [] v.kind = "str" -> v.s # <<>>
      [] v.kind = "int" -> v.n # 0
      [] v.kind = "bool" -> v.b
      [] OTHER -> FALSE

\* key in d
Has(d, key) == \E n \in 1..Len(d.pairs) : d.pairs[n].k = key

\* d.get(key, default); d[key] where the key is known to be there
Get(d, key, default) ==
    IF Has(d, key)
    THEN d.pairs[CHOOSE n \in 1..Len(d.pairs) : d.pairs[n].k = key].v
    ELSE default

\* d[key] = value: an existing key keeps its place, a new key goes last
DictSet(d, key, value) ==
    IF Has(d, key)
    THEN JDict([n \in 1..Len(d.pairs) |->
                  IF d.pairs[n].k = key THEN [k |-> key, v |-> value]
                  ELSE d.pairs[n]])
    ELSE JDict(Append(d.pairs, [k |-> key, v |-> value]))

----------------------------------------------------------------------------
(* The texts the program and the modelled replies are made of.             *)

\* The backquote character, which a TLA+ string cannot hold.
BQ == "<backquote>"

\* "task"
K_task ==
    <<"t", "a", "s", "k">>

\* "priority"
K_priority ==
    <<"p", "r", "i", "o", "r", "i", "t", "y">>

\* "completed"
K_completed ==
    <<"c", "o", "m", "p", "l", "e", "t", "e", "d">>

\* "sub_tasks"
K_sub_tasks ==
    <<"s", "u", "b", "_", "t", "a", "s", "k", "s">>

\* "Medium"
S_Medium ==
    <<"M", "e", "d", "i", "u", "m">>

\* "```json"
FENCE_JSON ==
    <<BQ, BQ, BQ, "j", "s", "o", "n">>

\* "```"
FENCE ==
    <<BQ, BQ, BQ>>

\* "```json\n[{\"task\":\"a\"}]\n```"
R_fenced ==
    <<BQ, BQ, BQ, "j", "s", "o", "n", "\n", "[", "{", "\"", "t", "a", "s",
      "k", "\"", ":", "\"", "a", "\"", "}", "]", "\n", BQ, BQ, BQ>>

\* "[{\"task\":\"a\",\"completed\":true,\"sub_tasks\":[{\"task\":\"b\",\"sub_tasks\":[\"c\"]},{\"task\":\"d\"}]}]"
R_nested ==
    <<"[", "{", "\"", "t", "a", "s", "k", "\"", ":", "\"", "a", "\"", ",",
      "\"", "c", "o", "m", "p", "l", "e", "t", "e", "d", "\"", ":", "t", "r",
      "u", "e", ",", "\"", "s", "u", "b", "_", "t", "a", "s", "k", "s", "\"",
      ":", "[", "{", "\"", "t", "a", "s", "k", "\"", ":", "\"", "b", "\"",
      ",", "\"", "s", "u", "b", "_", "t", "a", "s", "k", "s", "\"", ":", "[",
      "\"", "c", "\"", "]", "}", ",", "{", "\"", "t", "a", "s", "k", "\"",
      ":", "\"", "d", "\"", "}", "]", "}", "]">>

\* "[\"a\"]"
R_legacy ==
    <<"[", "\"", "a", "\"", "]">>

\* "[1,2,3]"
R_scalars ==
    <<"[", "1", ",", "2", ",", "3", "]">>

\* "ok"
R_text ==
    <<"o", "k">>

\* ""
R_empty ==
    <<>>

\* "{\"task\":\"a\"}"
R_object ==
    <<"{", "\"", "t", "a", "s", "k", "\"", ":", "\"", "a", "\"", "}">>

\* "5"
R_number ==
    <<"5">>

\* "[{\"priority\":\"High\"},{\"task\":\"b\"}]"
R_notask ==
    <<"[", "{", "\"", "p", "r", "i", "o", "r", "i", "t", "y", "\"", ":",
      "\"", "H", "i", "g", "h", "\"", "}", ",", "{", "\"", "t", "a", "s",
      "k", "\"", ":", "\"", "b", "\"", "}", "]">>

\* "[{\"task\":\"a\",\"sub_tasks\":\"x\"}]"
R_badsubs ==
    <<"[", "{", "\"", "t", "a", "s", "k", "\"", ":", "\"", "a", "\"", ",",
      "\"", "s", "u", "b", "_", "t", "a", "s", "k", "s", "\"", ":", "\"",
      "x", "\"", "}", "]">>

----------------------------------------------------------------------------
(* str.strip() and str.replace(old, ""), on characters.                    *)

Whitespace == {" ", "\n", "\t", "\r"}

RECURSIVE LStrip(_)
LStrip(s) ==
    IF s # <<>> /\ Head(s) \in Whitespace THEN LStrip(Tail(s)) ELSE s

RECURSIVE RStrip(_)
RStrip(s) ==
    IF s # <<>> /\ s[Len(s)] \in Whitespace
    THEN RStrip(SubSeq(s, 1, Len(s) - 1))
    ELSE s

Strip(s) == RStrip(LStrip(s))

\* Whether the characters of w stand in s from position i on.
StartsAt(s, i, w) ==
    /\ i >= 1
    /\ i + Len(w) - 1 <= Len(s)
    /\ SubSeq(s, i, i + Len(w) - 1) = w

\* Where s.replace(old, "") finds old from position i on: the leftmost
\* occurrence, then the leftmost one after its end, and so on.
RECURSIVE Occurrences(_, _, _)
Occurrences(s, old, i) ==
    LET later == {j \in i..Len(s) : StartsAt(s, j, old)}
        first == CHOOSE j \in later : \A k \in later : j <= k
    IN  IF later = {} THEN {}
        ELSE {first} \cup Occurrences(s, old, first + Len(old))

\* s.replace(old, ""): the characters of s outside every occurrence found.
Remove(s, old) ==
    LET found == Occurrences(s, old, 1)
        kept == {i \in 1..Len(s) :
                    ~\E j \in found : j <= i /\ i < j + Len(old)}
    IN  [n \in 1..Cardinality(kept) |->
            s[CHOOSE i \in kept : Cardinality({j \in kept : j < i}) = n - 1]]

----------------------------------------------------------------------------
(* json.loads, for the JSON the replies are written in: arrays, objects,   *)
(* strings without escapes, integers, true, false and null.                *)

Digits == {"0", "1", "2", "3", "4", "5", "6", "7", "8", "9"}

DigitValue(c) ==
    CASE c = "0" -> 0 [] c = "1" -> 1 [] c = "2" -> 2 [] c = "3" -> 3
      [] c = "4" -> 4 [] c = "5" -> 5 [] c = "6" -> 6 [] c = "7" -> 7
      [] c = "8" -> 8 [] c = "9" -> 9

\* The character at i, or "" past the end of the text.
At(s, i) == IF i \in 1..Len(s) THEN s[i] ELSE ""

RECURSIVE SkipWs(_, _)
SkipWs(s, i) == IF At(s, i) \in Whitespace THEN SkipWs(s, i + 1) ELSE i

ParseFail == [ok |-> FALSE, val |-> JNull, next |-> 0]
ParseDone(v, n) == [ok |-> TRUE, val |-> v, next |-> n]

\* The index of the quote that closes a string whose content starts at i;
\* 0 when the text ends, or a control character comes, before it.
RECURSIVE ClosingQuote(_, _)
ClosingQuote(s, i) ==
    LET c == At(s, i) IN
    IF c = "\"" THEN i
    ELSE IF c \in {"", "\n", "\t", "\r", "\\"} THEN 0
    ELSE ClosingQuote(s, i + 1)

ParseString(s, i) ==
    LET j == ClosingQuote(s, i + 1) IN
    IF j = 0 THEN ParseFail
    ELSE ParseDone(JStr(SubSeq(s, i + 1, j - 1)), j + 1)

RECURSIVE DigitsEnd(_, _)
DigitsEnd(s, i) == IF At(s, i) \in Digits THEN DigitsEnd(s, i + 1) ELSE i

RECURSIVE DigitsValue(_)
DigitsValue(ds) ==
    IF ds = <<>> THEN 0
    ELSE 10 * DigitsValue(SubSeq(ds, 1, Len(ds) - 1)) + DigitValue(ds[Len(ds)])

ParseNumber(s, i) ==
    LET neg == At(s, i) = "-"
        first == IF neg THEN i + 1 ELSE i
        end == IF At(s, first) = "0" THEN first + 1 ELSE DigitsEnd(s, first)
        n == DigitsValue(SubSeq(s, first, end - 1))
    IN  IF At(s, first) \notin Digits \/ At(s, end) \in {".", "e", "E"}
        THEN ParseFail
        ELSE ParseDone(JInt(IF neg THEN 0 - n ELSE n), end)

RECURSIVE ParseValue(_, _)
RECURSIVE ParseElements(_, _, _)
RECURSIVE ParseMembers(_, _, _)

\* scan_once: the value that starts at i.
ParseValue(s, i) ==
    LET c == At(s, i) IN
    CASE c = "\"" -> ParseString(s, i)
      [] c = "{" ->
            LET j == SkipWs(s, i + 1) IN
            IF At(s, j) = "}" THEN ParseDone(JDict(<<>>), j + 1)
            ELSE ParseMembers(s, j, JDict(<<>>))
      [] c = "[" ->
            LET j == SkipWs(s, i + 1) IN
            IF At(s, j) = "]" THEN ParseDone(JList(<<>>), j + 1)
            ELSE ParseElements(s, j, <<>>)
      [] StartsAt(s, i, <<"n", "u", "l", "l">>) -> ParseDone(JNull, i + 4)
      [] StartsAt(s, i, <<"t", "r", "u", "e">>) -> ParseDone(JBool(TRUE), i + 4)
      [] StartsAt(s, i, <<"f", "a", "l", "s", "e">>) ->
            ParseDone(JBool(FALSE), i + 5)
      [] c = "-" \/ c \in Digits -> ParseNumber(s, i)
      [] OTHER -> ParseFail

\* JSONArray: the elements from i on, acc holding those already read.
ParseElements(s, i, acc) ==
    LET v == ParseValue(s, i)
        j == SkipWs(s, v.next)
    IN  IF ~v.ok THEN ParseFail
        ELSE IF At(s, j) = "]" THEN ParseDone(JList(Append(acc, v.val)), j + 1)
        ELSE IF At(s, j) = ","
             THEN ParseElements(s, SkipWs(s, j + 1), Append(acc, v.val))
             ELSE ParseFail

\* JSONObject: the "key": value pairs from i on; a repeated key keeps its
\* place and takes the later value.
ParseMembers(s, i, acc) ==
    LET key == ParseString(s, i)
        colon == SkipWs(s, key.next)
        v == ParseValue(s, SkipWs(s, colon + 1))
        j == SkipWs(s, v.next)
        acc2 == DictSet(acc, key.val.s, v.val)
    IN  IF At(s, i) # "\"" \/ ~key.ok \/ At(s, colon) # ":" THEN ParseFail
        ELSE IF ~v.ok THEN ParseFail
        ELSE IF At(s, j) = "}" THEN ParseDone(acc2, j + 1)
        ELSE IF At(s, j) = "," THEN ParseMembers(s, SkipWs(s, j + 1), acc2)
        ELSE ParseFail

\* json.loads(s): ok is FALSE where it raises json.JSONDecodeError.
json_loads(s) ==
    LET v == ParseValue(s, SkipWs(s, 1)) IN
    IF v.ok /\ SkipWs(s, v.next) = Len(s) + 1
    THEN [ok |-> TRUE, val |-> v.val]
    ELSE [ok |-> FALSE, val |-> JNull]

----------------------------------------------------------------------------
(* The size of the model.                                                  *)

\* Add Subtask is offered while the list holds fewer entries than this.
MaxNodes == 2

\* What the user may have typed into the free-text field at Submit.
SubmitTexts == {<<>>, <<" ">>, <<"x">>}

\* What the user may have typed into a task's subtask field at Add Subtask.
SubtaskTexts == {<<" ">>, <<" ", "c", " ">>}

\* What chat.send_message may answer, when it answers.
Replies ==
    {R_fenced, R_nested, R_legacy, R_scalars, R_text, R_empty, R_object,
     R_number, R_notask, R_badsubs}

\* What chat.send_message may do: raise, or answer with one of the replies.
Outcomes ==
    {[ok |-> FALSE, text |-> <<>>]} \cup {[ok |-> TRUE, text |-> r] : r \in Replies}

----------------------------------------------------------------------------
(* What one script run is given: the widget the user acted on, if any.     *)

NoEvent == [kind |-> "none", path |-> <<>>, text |-> <<>>]
ToggleEvent(p) == [kind |-> "toggle", path |-> p, text |-> <<>>]
AddEvent(p, t) == [kind |-> "add", path |-> p, text |-> t]
DeleteEvent(p) == [kind |-> "delete", path |-> p, text |-> <<>>]

\* A widget of the task at path p: its checkbox, Add Subtask or Delete.
Widget(w, p) == [w |-> w, path |-> p]

----------------------------------------------------------------------------
(* render_tasks.  A pass ends "ok" (it returned), "rerun" (st.rerun() was  *)
(* called) or with the name of the exception that ended the script run.    *)

\* Lines 51-54: a bare text becomes a dict of this pass, anything else is
\* taken as it is.
Normalize(raw_item) ==
    IF raw_item.kind = "str"
    THEN JDict(<<[k |-> K_task, v |-> raw_item],
                 [k |-> K_priority, v |-> JStr(S_Medium)],
                 [k |-> K_completed, v |-> JBool(FALSE)]>>)
    ELSE raw_item

\* st.checkbox: the value it is given, or its opposite in the run the user
\* clicked it.
CheckboxValue(item, p, ev) ==
    LET value == Truthy(Get(item, K_completed, JBool(FALSE))) IN
    IF ev.kind = "toggle" /\ ev.path = p THEN ~value ELSE value

\* Lines 80-86: the new leaf goes last in the item's sub_tasks, which
\* becomes a list if it is not one.
AppendSubtask(item, text) ==
    LET old == IF Has(item, K_sub_tasks)
                  /\ Get(item, K_sub_tasks, JNull).kind = "list"
               THEN Get(item, K_sub_tasks, JNull).items
               ELSE <<>>
        leaf == JDict(<<[k |-> K_task, v |-> JStr(Strip(text))],
                        [k |-> K_priority, v |-> JStr(S_Medium)],
                        [k |-> K_completed, v |-> JBool(FALSE)]>>)
    IN  DictSet(item, K_sub_tasks, JList(Append(old, leaf)))

\* A pop that always removes the first entry of the list, whatever i is.
PopFirst(tasks, i) == Tail(tasks)

\* tasks.pop(i)
Pop(tasks, i) == SubSeq(tasks, 1, i - 1) \o SubSeq(tasks, i + 1, Len(tasks))

\* Counts that leave the subtasks of a task out.
AddCountsOwnOnly(own, sub) == own

\* Lines 101-102: what a task's subtasks add to the counts of its level.
AddCounts(own, sub) == own + sub

\* How a pass over one level ends before its return.
Stopped(status, tasks, ws) ==
    [tasks |-> tasks, total |-> 0, completed |-> 0, status |-> status,
     widgets |-> ws]

\* item is tasks[i] itself, so what is set on it is set in the list, unless
\* tasks[i] is a bare text: then item is a dict of this pass only.
Store(tasks, i, item) ==
    IF tasks[i].kind = "str" THEN tasks ELSE [tasks EXCEPT ![i] = item]

\* Line 95: the item has a sub_tasks key that holds a list.
HasSubtasks(item) ==
    Has(item, K_sub_tasks) /\ Get(item, K_sub_tasks, JNull).kind = "list"

\* The widgets of the task at p, as far as line 64, line 78 and line 90.
UpToCheckbox(p) == {Widget("chk", p)}
UpToAdd(p) == {Widget("chk", p), Widget("add", p)}
UpToDelete(p) == {Widget("chk", p), Widget("add", p), Widget("del", p)}

\* Lines 96-102: the counts and the widgets of the subtasks are added to
\* those of the task.
WithSubtasks(tasks, i, p, item, own, sub) ==
    [tasks |-> Store(tasks, i, DictSet(item, K_sub_tasks, JList(sub.tasks))),
     total |-> AddCounts(1, sub.total),
     completed |-> AddCounts(own, sub.completed),
     status |-> sub.status,
     widgets |-> UpToDelete(p) \cup sub.widgets]

RECURSIVE RenderLoop(_, _, _, _)

\* Lines 70-102, for an item whose completed key holds new_status.
RenderExpander(tasks, i, p, ev, item, new_status) ==
    IF ~Has(item, K_task)
    THEN Stopped("KeyError", Store(tasks, i, item), UpToCheckbox(p))  \* 75
    ELSE IF ev.kind = "add" /\ ev.path = p /\ Strip(ev.text) # <<>>
    THEN Stopped("rerun", Store(tasks, i, AppendSubtask(item, ev.text)),
                 UpToAdd(p))                                          \* 87
    ELSE IF ev.kind = "delete" /\ ev.path = p
    THEN Stopped("rerun", Pop(Store(tasks, i, item), i), UpToDelete(p)) \* 92
    ELSE IF HasSubtasks(item)
    THEN WithSubtasks(tasks, i, p, item, IF new_status THEN 1 ELSE 0,
                      RenderLoop(Get(item, K_sub_tasks, JNull).items, 1, p,
                                 ev))
    ELSE [tasks |-> Store(tasks, i, item), total |-> 1,
          completed |-> IF new_status THEN 1 ELSE 0, status |-> "ok",
          widgets |-> UpToDelete(p)]

\* Lines 64-69: the checkbox is drawn and its value is set on the item.
RenderCheckbox(tasks, i, p, ev, item, new_status) ==
    RenderExpander(tasks, i, p, ev,
                   DictSet(item, K_completed, JBool(new_status)), new_status)

\* Lines 50-62: the item is normalized and its label is built, which
\* calls item.get.
RenderItem(tasks, i, p, ev, item) ==
    IF item.kind # "dict"
    THEN Stopped("AttributeError", tasks, {})                         \* 57
    ELSE RenderCheckbox(tasks, i, p, ev, item, CheckboxValue(item, p, ev))

\* The counts and the widgets of one item and of those after it.
Merged(one, rest) ==
    [tasks |-> rest.tasks,
     total |-> one.total + rest.total,
     completed |-> one.completed + rest.completed,
     status |-> rest.status,
     widgets |-> one.widgets \cup rest.widgets]

\* The loop goes on to tasks[i + 1] unless the pass ended at tasks[i].
NextItem(one, i, path, ev) ==
    IF one.status # "ok" THEN one
    ELSE Merged(one, RenderLoop(one.tasks, i + 1, path, ev))

\* Lines 49 and 104: the loop from index i on, and the return.
RenderLoop(tasks, i, path, ev) ==
    IF i > Len(tasks)
    THEN [tasks |-> tasks, total |-> 0, completed |-> 0, status |-> "ok",
          widgets |-> {}]
    ELSE NextItem(RenderItem(tasks, i, Append(path, i), ev,
                             Normalize(tasks[i])),
                  i, path, ev)

render_tasks(tasks, ev) == RenderLoop(tasks, 1, <<>>, ev)

----------------------------------------------------------------------------
(* main: the Submit handler and the display of the list.                   *)

\* Lines 23-34: one send_message; None when it raises.
get_ai_response(outcome) ==
    [response |-> IF outcome.ok THEN JStr(outcome.text) ELSE JNull,
     calls |-> 1]

\* A handler that empties the list when no reply came.
NoReplyClears(todo, chat, ai, prompt) ==
    [todo |-> JList(<<>>), chat |-> chat, calls |-> ai.calls,
     prompt |-> prompt]

\* Line 34 with lines 152-154: what the handler keeps when the call failed
\* or answered with the empty text.
NoReply(todo, chat, ai, prompt) ==
    [todo |-> todo, chat |-> chat, calls |-> ai.calls, prompt |-> prompt]

\* Lines 156-157: the reply is trimmed, its fence markers are removed
\* wherever they stand, and what is left is parsed.
Interpret(reply) ==
    json_loads(Remove(Remove(Strip(reply), FENCE_JSON), FENCE))

\* Interpret over the modelled replies, computed once.
Interpreted == {[reply |-> r, parsed |-> Interpret(r)] : r \in Replies}

\* What json.loads makes of a reply once its markers are removed.
Parsed(reply) == (CHOOSE e \in Interpreted : e.reply = reply).parsed

\* Lines 155-162: whatever value the reply parses to becomes the list.
HandleReply(todo, chat, ai, prompt) ==
    LET new_list == Parsed(ai.response.s)
    IN  IF new_list.ok
        THEN [todo |-> new_list.val, chat |-> JNull, calls |-> ai.calls,
              prompt |-> prompt]
        ELSE [todo |-> todo, chat |-> ai.response, calls |-> ai.calls,
              prompt |-> prompt]

\* Lines 122-164: Submit was pressed with this text in the field.
SubmitHandler(todo, chat, text, outcome) ==
    LET prompt == IF ~Truthy(todo) THEN "bootstrap" ELSE "update"
        ai == get_ai_response(outcome)
    IN  IF text = <<>>
        THEN [todo |-> todo, chat |-> chat, calls |-> 0, prompt |-> "none"]
        ELSE IF Truthy(ai.response)
        THEN HandleReply(todo, chat, ai, prompt)
        ELSE NoReply(todo, chat, ai, prompt)

\* enumerate(tasks) at the top level: the items of a list, the keys of a
\* dict, the characters of a text.
Enumerated(todo) ==
    CASE todo.kind = "list" -> todo.items
      [] todo.kind = "dict" ->
            [n \in 1..Len(todo.pairs) |-> JStr(todo.pairs[n].k)]
      [] todo.kind = "str" -> [n \in 1..Len(todo.s) |-> JStr(<<todo.s[n]>>)]
      [] OTHER -> <<>>

\* What a pass r over the enumerated list leaves: a list takes the changes
\* made to its items; a value that is not a list has no pop(i) for Delete.
Page(todo, ev, r) ==
    [todo |-> IF todo.kind = "list" THEN JList(r.tasks) ELSE todo,
     total |-> r.total,
     completed |-> r.completed,
     status |-> IF todo.kind = "list" \/ r.status # "rerun"
                   \/ ev.kind # "delete"
                THEN r.status
                ELSE IF todo.kind = "dict" THEN "KeyError"
                ELSE "AttributeError",
     widgets |-> r.widgets,
     rendered |-> TRUE]

\* Lines 170-182: the list is rendered if it is truthy; a number or a
\* boolean cannot be enumerated.
RenderPage(todo, ev) ==
    IF ~Truthy(todo)
    THEN [todo |-> todo, total |-> 0, completed |-> 0, status |-> "ok",
          widgets |-> {}, rendered |-> FALSE]
    ELSE IF todo.kind \in {"list", "dict", "str"}
    THEN Page(todo, ev, render_tasks(Enumerated(todo), ev))
    ELSE [todo |-> todo, total |-> 0, completed |-> 0,
          status |-> "TypeError", widgets |-> {}, rendered |-> TRUE]

\* st.rerun(): the script runs again at once, with no widget acted on.
AfterRerun(first) ==
    IF first.status = "rerun" THEN RenderPage(first.todo, NoEvent) ELSE first

\* One user interaction: the script run it triggers and the run that
\* follows a st.rerun().
Interaction(todo, ev) == AfterRerun(RenderPage(todo, ev))

----------------------------------------------------------------------------
(* Reading the stored list.                                                *)

\* The entries under an entry: its sub_tasks when that is a list.
SubEntries(e) ==
    IF e.kind = "dict" /\ Has(e, K_sub_tasks)
       /\ Get(e, K_sub_tasks, JNull).kind = "list"
    THEN Get(e, K_sub_tasks, JNull).items
    ELSE <<>>

\* The entry a path leads to, descending through sub_tasks.
RECURSIVE EntryAt(_, _)
EntryAt(tasks, p) ==
    IF Len(p) = 1 THEN tasks[Head(p)]
    ELSE EntryAt(SubEntries(tasks[Head(p)]), Tail(p))

\* The number of entries in a sequence of entries, at every depth.
RECURSIVE NodesIn(_)
NodesIn(tasks) ==
    IF tasks = <<>> THEN 0
    ELSE 1 + NodesIn(SubEntries(Head(tasks))) + NodesIn(Tail(tasks))

\* The number of entries whose own completed flag reads true.
RECURSIVE DoneIn(_)
DoneIn(tasks) ==
    IF tasks = <<>> THEN 0
    ELSE (IF Head(tasks).kind = "dict"
             /\ Truthy(Get(Head(tasks), K_completed, JBool(FALSE)))
          THEN 1 ELSE 0)
         + DoneIn(SubEntries(Head(tasks))) + DoneIn(Tail(tasks))

----------------------------------------------------------------------------
(* The session: its state after initialize_session_state, and one action   *)
(* per thing the user can do on the page.                                  *)

NoOutcome == [ok |-> FALSE, text |-> <<>>]

\* Whether the interaction r records was a Submit whose LLM call failed.
CallFailed(r) == r.op = "submit" /\ r.calls > 0 /\ ~r.outcome.ok

\* The record of an interaction: its inputs, the number of entries a
\* Delete was pressed on (the task and all under it), how its last script
\* run ended and, after a failed LLM call, the list that call started from.
Record(op, ev, text, outcome, calls, prompt, page) ==
    [op |-> op, path |-> ev.path, text |-> text, outcome |-> outcome,
     calls |-> calls, prompt |-> prompt,
     size |-> IF ev.kind = "delete"
              THEN NodesIn(<<EntryAt(Enumerated(todo_list), ev.path)>>)
              ELSE 0,
     status |-> page.status, total |-> page.total,
     completed |-> page.completed, rendered |-> page.rendered,
     after_failure |-> CallFailed(run),
     good_todo |-> IF CallFailed(run) THEN run.good_todo ELSE JNull]

Init ==
    /\ todo_list = JList(<<>>)
    /\ chat_response = JNull
    /\ widgets = {}
    /\ run = [op |-> "start", path |-> <<>>, text |-> <<>>,
              outcome |-> NoOutcome, calls |-> 0, prompt |-> "none",
              size |-> 0, status |-> "ok", total |-> 0, completed |-> 0,
              rendered |-> FALSE, after_failure |-> FALSE,
              good_todo |-> JNull]

\* The user presses Submit with text in the free-text field; outcome is
\* what the LLM call does, if one is made.
Submit(text, outcome) ==
    LET h == SubmitHandler(todo_list, chat_response, text, outcome)
        page == RenderPage(h.todo, NoEvent)
        made == Record("submit", NoEvent, text, outcome, h.calls, h.prompt,
                       page)
    IN  /\ h.calls = 0 => outcome = NoOutcome
        /\ todo_list' = page.todo
        /\ chat_response' = h.chat
        /\ widgets' = page.widgets
        /\ run' = IF CallFailed(made)
                  THEN [made EXCEPT !.good_todo = todo_list]
                  ELSE made

\* The user clicks the Completed checkbox of the task at path p.
Toggle(p) ==
    LET ev == ToggleEvent(p)
        page == Interaction(todo_list, ev)
    IN  /\ Widget("chk", p) \in widgets
        /\ todo_list' = page.todo
        /\ widgets' = page.widgets
        /\ run' = Record("toggle", ev, <<>>, NoOutcome, 0, "none", page)
        /\ UNCHANGED chat_response

\* The user presses Add Subtask on the task at path p, with text in its
\* subtask field.
AddSubtask(p, text) ==
    LET ev == AddEvent(p, text)
        page == Interaction(todo_list, ev)
    IN  /\ Widget("add", p) \in widgets
        /\ NodesIn(Enumerated(todo_list)) < MaxNodes
        /\ todo_list' = page.todo
        /\ widgets' = page.widgets
        /\ run' = Record("add", ev, text, NoOutcome, 0, "none", page)
        /\ UNCHANGED chat_response

\* The user presses Delete on the task at path p.
Delete(p) ==
    LET ev == DeleteEvent(p)
        page == Interaction(todo_list, ev)
    IN  /\ Widget("del", p) \in widgets
        /\ todo_list' = page.todo
        /\ widgets' = page.widgets
        /\ run' = Record("delete", ev, <<>>, NoOutcome, 0, "none", page)
        /\ UNCHANGED chat_response

\* The script runs again with no button pressed and no checkbox clicked
\* (the user left a text field, or reloaded the view).
Rerun ==
    LET page == Interaction(todo_list, NoEvent) IN
    /\ todo_list' = page.todo
    /\ widgets' = page.widgets
    /\ run' = Record("rerun", NoEvent, <<>>, NoOutcome, 0, "none", page)
    /\ UNCHANGED chat_response

Paths == {w.path : w \in widgets}

Next ==
    \/ \E text \in SubmitTexts, outcome \in Outcomes : Submit(text, outcome)
    \/ \E p \in Paths : Toggle(p)
    \/ \E p \in Paths, text \in SubtaskTexts : AddSubtask(p, text)
    \/ \E p \in Paths : Delete(p)
    \/ Rerun

Spec == Init /\ [][Next]_vars

----------------------------------------------------------------------------
(* What the properties below read off the list.                            *)

\* The completed flag of a stored entry: a bare text stores none.
Flag(e) == e.kind = "dict" /\ Truthy(Get(e, K_completed, JBool(FALSE)))

\* Whether every entry, at every depth, is a dict.
RECURSIVE AllDicts(_)
AllDicts(tasks) ==
    \A n \in 1..Len(tasks) :
        tasks[n].kind = "dict" /\ AllDicts(SubEntries(tasks[n]))

\* The list without the entry at path p and all under it.
RECURSIVE Without(_, _)
Without(tasks, p) ==
    IF Len(p) = 1
    THEN SubSeq(tasks, 1, Head(p) - 1) \o SubSeq(tasks, Head(p) + 1, Len(tasks))
    ELSE [tasks EXCEPT ![Head(p)] =
            DictSet(@, K_sub_tasks, JList(Without(SubEntries(@), Tail(p))))]

\* The leaf Add Subtask is to append for a text.
Leaf(text) ==
    JDict(<<[k |-> K_task, v |-> JStr(Strip(text))],
            [k |-> K_priority, v |-> JStr(S_Medium)],
            [k |-> K_completed, v |-> JBool(FALSE)]>>)

\* Whether q is a proper ancestor of p, or a sibling of p.
AncestorOrSibling(q, p) ==
    \/ Len(q) < Len(p) /\ q = SubSeq(p, 1, Len(q))
    \/ Len(q) = Len(p) /\ q # p
       /\ SubSeq(q, 1, Len(q) - 1) = SubSeq(p, 1, Len(p) - 1)

\* The paths of the entries of a list, at every depth.
RECURSIVE PathsIn(_, _)
PathsIn(tasks, prefix) ==
    UNION {{Append(prefix, n)}
             \cup PathsIn(SubEntries(tasks[n]), Append(prefix, n)) :
           n \in 1..Len(tasks)}

----------------------------------------------------------------------------
(* The properties.                                                         *)

\* C1: when the LLM answers, the stored list is replaced if and only if the
\* reply, trimmed and with its fence markers removed, parses as a JSON
\* array; for every other reply the list is left as it was and the last
\* message becomes the reply as received (no message left for the empty
\* reply).
C1_ReplacedIffArray ==
    [][(run'.op = "submit" /\ run'.calls > 0 /\ run'.outcome.ok) =>
        LET reply == run'.outcome.text
            parsed == Parsed(reply)
        IN  IF parsed.ok /\ parsed.val.kind = "list"
            THEN todo_list' = RenderPage(parsed.val, NoEvent).todo
            ELSE /\ todo_list' = todo_list
                 /\ IF reply = <<>> THEN ~Truthy(chat_response')
                    ELSE chat_response' = JStr(reply)]_vars

\* C2: a Submit whose LLM call fails makes exactly one call and leaves the
\* stored list exactly as it was; a Submit that follows it is processed,
\* as any Submit is, against that same list.
C2_FailedCallKeepsList ==
    [][/\ CallFailed(run') =>
            /\ run'.calls = 1
            /\ todo_list' = todo_list
            /\ run'.good_todo = todo_list
       /\ (CallFailed(run) /\ run'.op = "submit") =>
            /\ todo_list = run.good_todo
            /\ todo_list' =
                 RenderPage(SubmitHandler(run.good_todo, chat_response,
                                          run'.text, run'.outcome).todo,
                            NoEvent).todo]_vars

\* C2, its case: after a failed call on a list that holds tasks, a later
\* Submit was answered and replaced that list.
C2_Witness ==
    /\ run.op = "submit" /\ run.after_failure
    /\ run.calls = 1 /\ run.outcome.ok
    /\ Truthy(run.good_todo)
    /\ todo_list.kind = "list" /\ todo_list # run.good_todo

\* C3: a Submit whose text is empty or only whitespace makes no LLM call and
\* changes neither the list nor the last message.
C3_BlankSubmitRejected ==
    [][(run'.op = "submit" /\ Strip(run'.text) = <<>>) =>
        /\ run'.calls = 0
        /\ todo_list' = todo_list
        /\ chat_response' = chat_response]_vars

\* C4: a render pass in which no checkbox was clicked returns the number of
\* entries of the list at every depth, and the number of those whose own
\* completed flag is true.
C4_RenderCounts ==
    (run.rendered /\ run.status = "ok" /\ run.op # "toggle"
     /\ todo_list.kind = "list") =>
        /\ run.total = NodesIn(todo_list.items)
        /\ run.completed = DoneIn(todo_list.items)

\* C4, its case: a pass counted four entries three levels deep, where a
\* task that is not completed holds a completed subtask, which holds a
\* subtask that is not completed.
C4_Witness ==
    /\ run.rendered /\ run.status = "ok" /\ run.op # "toggle"
    /\ todo_list.kind = "list"
    /\ run.total = 4 /\ run.completed = 1
    /\ <<1, 1, 1>> \in PathsIn(todo_list.items, <<>>)
    /\ ~Flag(EntryAt(todo_list.items, <<1>>))
    /\ Flag(EntryAt(todo_list.items, <<1, 1>>))
    /\ ~Flag(EntryAt(todo_list.items, <<1, 1, 1>>))

\* C5: setting the Completed checkbox of any entry of the stored list makes
\* that entry's completed flag read true in the stored list, and changes
\* the flag of none of its siblings and ancestors.
C5_CheckboxIsStored ==
    [][(run'.op = "toggle" /\ todo_list.kind = "list"
        /\ ~Flag(EntryAt(todo_list.items, run'.path))) =>
        /\ Flag(EntryAt(todo_list'.items, run'.path))
        /\ \A q \in PathsIn(todo_list.items, <<>>) :
              AncestorOrSibling(q, run'.path) =>
                 Flag(EntryAt(todo_list'.items, q))
                   = Flag(EntryAt(todo_list.items, q))]_vars

\* C6: Delete on an entry that holds m entries under it removes that entry
\* and those m from the list and nothing else: what remains keeps its
\* content and order, and the next pass counts 1 + m entries fewer.
C6_DeleteRemovesSubtree ==
    [][(run'.op = "delete" /\ todo_list.kind = "list") =>
        LET m == NodesIn(SubEntries(EntryAt(todo_list.items, run'.path)))
        IN  /\ todo_list' = JList(Without(todo_list.items, run'.path))
            /\ (run'.rendered /\ run'.status = "ok") =>
                 run'.total = NodesIn(todo_list.items) - (1 + m)
            /\ NodesIn(todo_list'.items)
                 = NodesIn(todo_list.items) - (1 + m)]_vars

\* C6, its case: Delete removed an entry with entries under it, and sibling
\* entries remain.
C6_Witness ==
    /\ run.op = "delete" /\ run.size >= 2 /\ run.status = "ok"
    /\ todo_list.kind = "list"
    /\ NodesIn(todo_list.items) >= 2

\* C7: Add Subtask with a text that is not empty after trimming appends one
\* leaf for the trimmed text after the subtasks of the entry it was pressed
\* on, whatever that entry is, and the list holds one entry more; with a
\* text that is empty after trimming the list does not change.
C7_AddAppendsLeaf ==
    [][(run'.op = "add" /\ todo_list.kind = "list") =>
        IF Strip(run'.text) # <<>>
        THEN /\ SubEntries(EntryAt(todo_list'.items, run'.path))
                  = Append(SubEntries(EntryAt(todo_list.items, run'.path)),
                           Leaf(run'.text))
             /\ NodesIn(todo_list'.items) = NodesIn(todo_list.items) + 1
        ELSE todo_list' = todo_list]_vars

\* C8: after the reply [1,2,3] the list is replaced and the render pass
\* that follows ends without an error, counting one entry for each element.
C8_ScalarArrayRenders ==
    (run.op = "submit" /\ run.outcome.ok /\ run.outcome.text = R_scalars) =>
        /\ todo_list.kind = "list" /\ Len(todo_list.items) = 3
        /\ run.status = "ok"
        /\ run.total = 3

\* C9: a render pass over a list whose entries are dicts, whichever of
\* their keys are missing, ends without an error and counts every entry.
C9_PartialNodesRender ==
    (run.rendered /\ todo_list.kind = "list" /\ AllDicts(todo_list.items)) =>
        /\ run.status = "ok"
        /\ run.total = NodesIn(todo_list.items)

\* C10: when the LLM answers with the empty text, no earlier message is
\* left as the last message, and the list is unchanged.
C10_EmptyReplyIsMessage ==
    [][(run'.op = "submit" /\ run'.calls > 0 /\ run'.outcome.ok
        /\ run'.outcome.text = <<>>) =>
        /\ ~Truthy(chat_response')
        /\ todo_list' = todo_list]_vars

=============================================================================
